---- MODULE Spec2Model ----
(***************************************************************************)
(* Model of src/src/lib.rs: create_longest_substring, the scanner that     *)
(* finds the longest substring with valid brackets of the cyclic           *)
(* repetition of its input.                                                *)
(*                                                                         *)
(* A char is its Unicode code point; a string is the sequence of its       *)
(* chars.  val.len() is the BYTE length of the string (ByteLen), while     *)
(* val.chars().cycle() walks its chars, so the two are kept apart.         *)
(* One action is one iteration of the for loop (one per branch of its      *)
(* body), plus the end of the iterator, the final slicing and the call of  *)
(* the function on its own previous result.                                *)
(***************************************************************************)
EXTENDS Integers, Sequences, FiniteSets

VARIABLES val, index, brackets, max_end, max_len, prev_valid_len, len,
          pc, stop, ret, pass, first_result

vars == <<val, index, brackets, max_end, max_len, prev_valid_len, len,
          pc, stop, ret, pass, first_result>>

(***************************************************************************)
(* Bounds of the model.                                                    *)
(***************************************************************************)
\* longest input (in chars) of the exhaustive specification
MaxLen == 5
\* longest text put before and after the sentinel text in SpecSentinel
MaxWrap == 1
\* the reference search looks at runs of up to RunLaps * n chars
RunLaps == 2

(***************************************************************************)
(* Characters.                                                             *)
(***************************************************************************)
OpenParen == 40
CloseParen == 41
OpenSquare == 91
CloseSquare == 93
OpenCurly == 123
CloseCurly == 125

\* filler used in the inputs: 'a'
FillerChars == {97}
\* chars that do not fit one byte: U+00E9 (2 bytes in UTF-8, 1 unit in
\* UTF-16) and U+1F590, the hand of the tests (4 bytes, 2 units)
WideChars == {233, 128400}

InputChars ==
    {OpenParen, CloseParen, OpenSquare, CloseSquare, OpenCurly, CloseCurly}
        \cup FillerChars \cup WideChars

\* the text "Infinite"
InfiniteText == <<73, 110, 102, 105, 110, 105, 116, 101>>

\* char::len_utf8
len_utf8(c) ==
    IF c < 128 THEN 1 ELSE IF c < 2048 THEN 2 ELSE IF c < 65536 THEN 3 ELSE 4

\* char::len_utf16
len_utf16(c) == IF c < 65536 THEN 1 ELSE 2

is_bracket(c) ==
    c \in {OpenCurly, OpenSquare, OpenParen, CloseParen, CloseSquare, CloseCurly}

\* an Option is a sequence: <<>> is None, <<c>> is Some(c)
opening_bracket_to_closing(c) ==
    IF c = OpenCurly THEN <<CloseCurly>>
    ELSE IF c = OpenSquare THEN <<CloseSquare>>
    ELSE IF c = OpenParen THEN <<CloseParen>>
    ELSE <<>>

(***************************************************************************)
(* Strings.                                                                *)
(***************************************************************************)
Last(s) == s[Len(s)]
Front(s) == SubSeq(s, 1, Len(s) - 1)

RECURSIVE ByteLen(_)
\* str::len: the number of bytes of the UTF-8 encoding
ByteLen(v) == IF v = <<>> THEN 0 ELSE len_utf8(Head(v)) + ByteLen(Tail(v))

\* byte offset at which char number k + 1 starts (k = Len(v): the end)
Offset(v, k) == ByteLen(SubSeq(v, 1, k))

IsCharBoundary(v, a) == \E k \in 0..Len(v) : Offset(v, k) = a

\* &v[a..b] does not panic
SliceOk(v, a, b) ==
    /\ a <= b
    /\ b <= ByteLen(v)
    /\ IsCharBoundary(v, a)
    /\ IsCharBoundary(v, b)

\* &v[a..b], byte offsets
Slice(v, a, b) ==
    LET i == CHOOSE k \in 0..Len(v) : Offset(v, k) = a
        j == CHOOSE k \in 0..Len(v) : Offset(v, k) = b
    IN  SubSeq(v, i + 1, j)

\* val.chars().cycle().take(2 * val.len()): number of items
ScanLimit(v) == 2 * ByteLen(v)

\* the item of val.chars().cycle() at position i
CharAt(v, i) == v[(i % Len(v)) + 1]

(***************************************************************************)
(* The pieces of the loop body.                                            *)
(***************************************************************************)
IsNonByteCharUtf16Only(c) == len_utf16(c) > 1

\* line 59
IsNonByteChar(c) == len_utf8(c) > 1 \/ len_utf16(c) > 1

OpenerStopsCapOnly(brs, idx, n) == Len(brs) + 1 = n

OpenerStopsInSecondLap(brs, idx, n) == idx >= n \/ Len(brs) + 1 = n

OpenerStopsNever(brs, idx, n) == FALSE

\* lines 64-69: the opener stop condition
OpenerStops(brs, idx, n) ==
    \/ /\ idx >= n
       /\ IF brs # <<>> THEN brs[1].index = idx - n ELSE FALSE
    \/ Len(brs) + 1 = n

CloserMatchesAny(last, ch) == TRUE

\* line 83
CloserMatches(last, ch) == last.val = ch

CloseLenNoPrev(last, rest, idx, pvl) ==
    IF rest # <<>> THEN idx - Last(rest).index
    ELSE 1 + idx - last.index

\* lines 84-88: candidate length of a matched closer; rest is the stack
\* after the pop
CloseLen(last, rest, idx, pvl) ==
    IF rest # <<>> THEN idx - Last(rest).index
    ELSE 1 + idx - last.index + pvl

\* a usize subtraction of lines 84-88 would underflow
CloseLenUnderflows(last, rest, idx) ==
    IF rest # <<>> THEN idx < Last(rest).index ELSE 1 + idx < last.index

FillerLenNoRun(brs, idx, pvl) ==
    IF brs # <<>> THEN idx - Last(brs).index ELSE 1

\* lines 109-113: candidate length of a filler char
FillerLen(brs, idx, pvl) ==
    IF brs # <<>> THEN idx - Last(brs).index ELSE pvl + 1

\* the usize subtraction of line 112 would underflow
FillerLenUnderflows(brs, idx) ==
    IF brs # <<>> THEN idx < Last(brs).index ELSE FALSE

BestUpdateStrict(l, idx, n, ml, me) ==
    IF l > ml
    THEN IF l > n
         THEN [infinite |-> TRUE, max_len |-> ml, max_end |-> me]
         ELSE [infinite |-> FALSE, max_len |-> l, max_end |-> idx + 1]
    ELSE [infinite |-> FALSE, max_len |-> ml, max_end |-> me]

BestUpdateEndAtIndex(l, idx, n, ml, me) ==
    IF l > ml
    THEN IF l >= n
         THEN [infinite |-> TRUE, max_len |-> ml, max_end |-> me]
         ELSE [infinite |-> FALSE, max_len |-> l, max_end |-> idx]
    ELSE [infinite |-> FALSE, max_len |-> ml, max_end |-> me]

BestUpdateLatest(l, idx, n, ml, me) ==
    IF l >= ml
    THEN IF l >= n
         THEN [infinite |-> TRUE, max_len |-> ml, max_end |-> me]
         ELSE [infinite |-> FALSE, max_len |-> l, max_end |-> idx + 1]
    ELSE [infinite |-> FALSE, max_len |-> ml, max_end |-> me]

BestUpdateAccumulate(l, idx, n, ml, me) ==
    IF l > ml
    THEN [infinite |-> FALSE, max_len |-> ml + l, max_end |-> idx + 1]
    ELSE [infinite |-> FALSE, max_len |-> ml, max_end |-> me]

\* lines 115-121: what a candidate length does to the best span
BestUpdate(l, idx, n, ml, me) ==
    IF l > ml
    THEN IF l >= n
         THEN [infinite |-> TRUE, max_len |-> ml, max_end |-> me]
         ELSE [infinite |-> FALSE, max_len |-> l, max_end |-> idx + 1]
    ELSE [infinite |-> FALSE, max_len |-> ml, max_end |-> me]

ResultPanics(v, me, ml) ==
    LET n == ByteLen(v)
    IN  \/ me < ml
        \/ IF me > n
           THEN ~SliceOk(v, me - ml, n) \/ ~SliceOk(v, 0, me - n)
           ELSE ~SliceOk(v, me - ml, me)

ResultTextShortHead(v, me, ml) ==
    LET n == ByteLen(v)
    IN  IF me > n
        THEN Slice(v, me - ml, n) \o Slice(v, 0, ml - (n - (me - ml)) - 1)
        ELSE Slice(v, me - ml, me)

\* lines 129-137: the string built from max_end and max_len
ResultText(v, me, ml) ==
    LET n == ByteLen(v)
    IN  IF me > n
        THEN Slice(v, me - ml, n) \o Slice(v, 0, me - n)
        ELSE Slice(v, me - ml, me)

(***************************************************************************)
(* Inputs and initial states.                                              *)
(***************************************************************************)
StringsUpTo(m) == UNION {[1..k -> InputChars] : k \in 0..m}

Inputs == StringsUpTo(MaxLen)

\* the sentinel text with up to MaxWrap chars before and after it
SentinelInputs ==
    {<<>>} \cup
    {pre \o InfiniteText \o post : pre \in StringsUpTo(MaxWrap),
                                   post \in StringsUpTo(MaxWrap)}

NoResult == [kind |-> "None", text |-> <<>>]

\* lines 50-56: the state at the start of a call on v
Entry(v) ==
    /\ val = v
    /\ index = 0
    /\ brackets = <<>>
    /\ max_end = 0
    /\ max_len = 0
    /\ prev_valid_len = 0
    /\ pc = "scan"
    /\ stop = "none"
    /\ ret = NoResult
    /\ len = <<>>

Init ==
    /\ \E v \in Inputs : Entry(v)
    /\ pass = 1
    /\ first_result = <<>>

InitSentinel ==
    /\ \E v \in SentinelInputs : Entry(v)
    /\ pass = 1
    /\ first_result = <<>>

(***************************************************************************)
(* Actions.                                                                *)
(***************************************************************************)
InLoop == pc = "scan" /\ index < ScanLimit(val)

\* a return from inside the loop
Return(how, r, brs) ==
    /\ pc' = "done"
    /\ stop' = how
    /\ ret' = r
    /\ brackets' = brs
    /\ UNCHANGED <<val, index, max_end, max_len, prev_valid_len, pass, first_result>>

\* a break of the loop
Break(how, brs, pvl) ==
    /\ pc' = "slice"
    /\ stop' = how
    /\ brackets' = brs
    /\ prev_valid_len' = pvl
    /\ len' = <<>>
    /\ UNCHANGED <<val, index, max_end, max_len, ret, pass, first_result>>

\* lines 115-126: the body run with a candidate length l (len is Some(l));
\* brs is the stack left by the branch that computed it
Candidate(l, brs) ==
    LET u == BestUpdate(l, index, ByteLen(val), max_len, max_end)
    IN  /\ len' = <<l>>
        /\ IF u.infinite
           THEN Return("infinite", [kind |-> "Ok", text |-> InfiniteText], brs)
           ELSE /\ max_len' = u.max_len
                /\ max_end' = u.max_end
                /\ prev_valid_len' = IF brs = <<>> THEN l ELSE prev_valid_len
                /\ brackets' = brs
                /\ index' = index + 1
                /\ UNCHANGED <<val, pc, stop, ret, pass, first_result>>

\* a usize subtraction that underflows panics (overflow checks on); with the
\* checks off it wraps and the slicing panics on the wrapped bound instead
Panic(brs) ==
    /\ len' = <<>>
    /\ Return("panic", [kind |-> "Panic", text |-> <<>>], brs)

\* lines 59-61
NonByteChar ==
    /\ InLoop
    /\ IsNonByteChar(CharAt(val, index))
    /\ len' = <<>>
    /\ Return("err", [kind |-> "Err", text |-> <<>>], brackets)

\* lines 63-72
OpenerBreak ==
    /\ InLoop
    /\ LET ch == CharAt(val, index)
       IN  /\ ~IsNonByteChar(ch)
           /\ is_bracket(ch)
           /\ opening_bracket_to_closing(ch) # <<>>
           /\ OpenerStops(brackets, index, ByteLen(val))
    /\ Break("opener_break", brackets, prev_valid_len)

\* lines 63-69, 73-80
OpenerPush ==
    /\ InLoop
    /\ LET ch == CharAt(val, index)
       IN  /\ ~IsNonByteChar(ch)
           /\ is_bracket(ch)
           /\ opening_bracket_to_closing(ch) # <<>>
           /\ ~OpenerStops(brackets, index, ByteLen(val))
           /\ brackets' = Append(brackets,
                  [val |-> opening_bracket_to_closing(ch)[1], index |-> index])
    /\ index' = index + 1
    /\ len' = <<>>
    /\ UNCHANGED <<val, max_end, max_len, prev_valid_len, pc, stop, ret,
                   pass, first_result>>

\* lines 82-83, 89-104: nothing to pop, or the popped entry expects another
\* closer
CloserMismatch ==
    /\ InLoop
    /\ LET ch == CharAt(val, index)
       IN  /\ ~IsNonByteChar(ch)
           /\ is_bracket(ch)
           /\ opening_bracket_to_closing(ch) = <<>>
           /\ \/ brackets = <<>>
              \/ /\ brackets # <<>>
                 /\ ~CloserMatches(Last(brackets), ch)
    /\ IF index >= ByteLen(val)
       THEN Break("mismatch_break", <<>>, 0)
       ELSE /\ prev_valid_len' = 0
            /\ brackets' = <<>>
            /\ index' = index + 1
            /\ len' = <<>>
            /\ UNCHANGED <<val, max_end, max_len, pc, stop, ret, pass,
                           first_result>>

\* lines 82-88, 105, 115-126
CloserMatch ==
    /\ InLoop
    /\ LET ch == CharAt(val, index)
       IN  /\ ~IsNonByteChar(ch)
           /\ is_bracket(ch)
           /\ opening_bracket_to_closing(ch) = <<>>
           /\ brackets # <<>>
           /\ CloserMatches(Last(brackets), ch)
    /\ LET last == Last(brackets)
           rest == Front(brackets)
       IN  IF CloseLenUnderflows(last, rest, index)
           THEN Panic(rest)
           ELSE Candidate(CloseLen(last, rest, index, prev_valid_len), rest)

\* lines 108-126
Filler ==
    /\ InLoop
    /\ LET ch == CharAt(val, index)
       IN  /\ ~IsNonByteChar(ch)
           /\ ~is_bracket(ch)
    /\ IF FillerLenUnderflows(brackets, index)
       THEN Panic(brackets)
       ELSE Candidate(FillerLen(brackets, index, prev_valid_len), brackets)

\* line 58: take(2 * val.len()) has no more items
LoopExhausted ==
    /\ pc = "scan"
    /\ index >= ScanLimit(val)
    /\ Break("exhausted", brackets, prev_valid_len)

\* lines 129-137
Finish ==
    /\ pc = "slice"
    /\ pc' = "done"
    /\ ret' = IF ResultPanics(val, max_end, max_len)
              THEN [kind |-> "Panic", text |-> <<>>]
              ELSE [kind |-> "Ok", text |-> ResultText(val, max_end, max_len)]
    /\ UNCHANGED <<val, index, brackets, max_end, max_len, prev_valid_len,
                   len, stop, pass, first_result>>

\* the finite result of a call is given to a second call as its input
Rescan ==
    /\ pc = "done"
    /\ pass = 1
    /\ ret.kind = "Ok"
    /\ stop \in {"opener_break", "mismatch_break", "exhausted"}
    /\ pass' = 2
    /\ first_result' = ret.text
    /\ val' = ret.text
    /\ index' = 0
    /\ brackets' = <<>>
    /\ max_end' = 0
    /\ max_len' = 0
    /\ prev_valid_len' = 0
    /\ pc' = "scan"
    /\ stop' = "none"
    /\ ret' = NoResult
    /\ len' = <<>>

Next ==
    \/ NonByteChar
    \/ OpenerBreak
    \/ OpenerPush
    \/ CloserMismatch
    \/ CloserMatch
    \/ Filler
    \/ LoopExhausted
    \/ Finish
    \/ Rescan

Spec == Init /\ [][Next]_vars

SpecSentinel == InitSentinel /\ [][Next]_vars

(***************************************************************************)
(* Reference definitions used by the properties: what a balanced string    *)
(* is, stated without the scanner.                                         *)
(***************************************************************************)
Openers == {OpenParen, OpenSquare, OpenCurly}
Closers == {CloseParen, CloseSquare, CloseCurly}
Pairs == {<<OpenParen, CloseParen>>, <<OpenSquare, CloseSquare>>,
          <<OpenCurly, CloseCurly>>}

RECURSIVE BalancedFrom(_, _, _)
\* w[k..] is read with the openers st pending; TRUE iff no closer fails and
\* nothing is pending at the end
BalancedFrom(w, k, st) ==
    IF k > Len(w) THEN st = <<>>
    ELSE IF w[k] \in Openers THEN BalancedFrom(w, k + 1, Append(st, w[k]))
    ELSE IF w[k] \in Closers
         THEN /\ st # <<>>
              /\ <<Last(st), w[k]>> \in Pairs
              /\ BalancedFrom(w, k + 1, Front(st))
    ELSE BalancedFrom(w, k + 1, st)

Balanced(w) == BalancedFrom(w, 1, <<>>)

\* the L chars of the cyclic reading of v that start at position s (0-based)
CyclicRun(v, s, L) == [k \in 1..L |-> v[((s + k - 1) % Len(v)) + 1]]

\* some rotation of v is balanced
HasBalancedRotation(v) ==
    \E s \in 0..(Len(v) - 1) : Balanced(CyclicRun(v, s, Len(v)))

RECURSIVE LongestFrom(_, _, _, _, _)
\* length of the longest balanced run of the cyclic reading of v that starts
\* at s and has at most RunLaps * Len(v) chars; k chars are read, st is
\* pending, best is the longest balanced prefix so far
LongestFrom(v, s, k, st, best) ==
    IF k >= RunLaps * Len(v) THEN best
    ELSE LET c == v[((s + k) % Len(v)) + 1]
         IN  IF c \in Openers
             THEN LongestFrom(v, s, k + 1, Append(st, c), best)
             ELSE IF c \in Closers
             THEN IF st # <<>> /\ <<Last(st), c>> \in Pairs
                  THEN LongestFrom(v, s, k + 1, Front(st),
                                   IF Len(st) = 1 THEN k + 1 ELSE best)
                  ELSE best
             ELSE LongestFrom(v, s, k + 1, st,
                              IF st = <<>> THEN k + 1 ELSE best)

SetMax(S) == CHOOSE m \in S : \A x \in S : x <= m

\* the maximum length of a balanced run of the cyclic repetition of v
MaxBalancedRun(v) ==
    SetMax({0} \cup {LongestFrom(v, s, 0, <<>>, 0) : s \in 0..(Len(v) - 1)})

AllSingleByte(v) == \A k \in 1..Len(v) : len_utf8(v[k]) = 1
HasWideChar(v) == \E k \in 1..Len(v) : len_utf8(v[k]) > 1
\* 0-based position of the first char of v that takes more than one byte
FirstWide(v) == CHOOSE k \in 0..(Len(v) - 1) :
    /\ len_utf8(v[k + 1]) > 1
    /\ \A j \in 1..k : len_utf8(v[j]) = 1

\* the call returned a string built by the final slicing
ReturnedFinite ==
    /\ pc = "done"
    /\ stop \in {"opener_break", "mismatch_break", "exhausted"}

(***************************************************************************)
(* Properties.                                                             *)
(***************************************************************************)

\* C1: for an input of single-byte chars that does not take the Infinite
\* return, the call returns Ok with a string whose length is the maximum
\* length of a balanced run of the cyclic repetition of the input (0, the
\* empty string, when there is no non-empty balanced run).
C1_Maximality ==
    (pc = "done" /\ AllSingleByte(val) /\ stop # "infinite")
        => /\ ret.kind = "Ok"
           /\ Len(ret.text) = MaxBalancedRun(val)

\* a finite non-empty result that was stitched from two parts: a balanced
\* run closed by a bracket after an earlier balanced run
C1_Witness ==
    /\ ReturnedFinite
    /\ pass = 1
    /\ val = <<CloseSquare, 97, OpenParen, CloseParen>>
    /\ ret.text = <<97, OpenParen, CloseParen>>

\* C2: a string returned by the final slicing is balanced.
C2_Validity ==
    (ReturnedFinite /\ AllSingleByte(val))
        => /\ ret.kind = "Ok"
           /\ Balanced(ret.text)

\* the nested pair of two types returned for "}([])"
C2_Witness ==
    /\ ReturnedFinite
    /\ pass = 1
    /\ val = <<CloseCurly, OpenParen, OpenSquare, CloseSquare, CloseParen>>
    /\ ret.text = <<OpenParen, OpenSquare, CloseSquare, CloseParen>>

\* C3: a call on a non-empty input of single-byte chars takes the Infinite
\* return iff some rotation of the input is balanced.
C3_InfiniteIff ==
    (pc = "done" /\ AllSingleByte(val) /\ Len(val) > 0)
        => (stop = "infinite" <=> HasBalancedRotation(val))

\* the Infinite return on an input that is balanced only after a rotation
C3_Witness ==
    /\ pc = "done"
    /\ stop = "infinite"
    /\ pass = 1
    /\ ~Balanced(val)
    /\ index >= Len(val)

\* C4: on an input with a char of more than one byte the scan reaches the
\* first such char and returns Err there: no break, no Infinite return and
\* no end of the iterator comes before it.
C4_WideRejected ==
    HasWideChar(val)
        => /\ stop \in {"none", "err"}
           /\ index <= FirstWide(val)
           /\ pc \in {"scan", "done"}
           /\ pc = "done" => (ret.kind = "Err" /\ index = FirstWide(val))
           /\ pc = "scan" => index < ScanLimit(val)

\* Err returned for a 2-byte char that follows three single-byte chars
C4_Witness ==
    /\ pc = "done"
    /\ ret.kind = "Err"
    /\ index = 3
    /\ Len(val) = 4
    /\ val[4] = 233
    /\ brackets # <<>>

\* C5: a finite result is the max_len chars input[(s + k) mod n],
\* k = 0..max_len-1, s = max_end - max_len; when max_end > n it is
\* input[s..n] followed by input[0..max_end-n].
C5_WrapCorrect ==
    (ReturnedFinite /\ AllSingleByte(val))
        => /\ ret.kind = "Ok"
           /\ Len(ret.text) = max_len
           /\ max_end >= max_len
           /\ ret.text = CyclicRun(val, max_end - max_len, max_len)
           /\ max_end > Len(val)
                => ret.text = SubSeq(val, max_end - max_len + 1, Len(val))
                                \o SubSeq(val, 1, max_end - Len(val))

\* a result that straddles the wrap point with a non-empty tail and head
C5_Witness ==
    /\ ReturnedFinite
    /\ ret.kind = "Ok"
    /\ max_end > Len(val)
    /\ max_end - max_len < Len(val)
    /\ Len(ret.text) >= 2
    /\ ret.text[1] # ret.text[2]

\* C6: a call on an input of single-byte chars never panics and returns Ok;
\* when the loop has ended without the Infinite return,
\* 0 <= max_len <= max_end <= 2n, max_len < n when n > 0, and
\* max_end - max_len <= n when max_end > n.
C6_Totality ==
    AllSingleByte(val)
        => /\ ret.kind # "Panic"
           /\ stop # "panic"
           /\ pc = "done" => ret.kind = "Ok"
           /\ pc \in {"slice", "done"} /\ stop # "infinite"
                => /\ 0 <= max_len
                   /\ max_len <= max_end
                   /\ max_end <= 2 * Len(val)
                   /\ Len(val) > 0 => max_len < Len(val)
                   /\ max_end > Len(val) => max_end - max_len <= Len(val)
                   /\ ~ResultPanics(val, max_end, max_len)

\* Ok returned for the empty input, and for an input whose best span ends
\* in the second lap
C6_Witness ==
    /\ pc = "done"
    /\ ret.kind = "Ok"
    /\ \/ val = <<>>
       \/ max_end > Len(val) /\ max_len > 0

\* C7: whenever the success value is the text "Infinite", some rotation of
\* the input is balanced (the value was produced by the Infinite return,
\* never by the final slicing).
C7_SentinelMeaning ==
    (pc = "done" /\ ret.kind = "Ok" /\ ret.text = InfiniteText)
        => /\ stop = "infinite"
           /\ Len(val) > 0
           /\ HasBalancedRotation(val)

\* C8: a second call, on the finite result r of a first call, returns Ok and
\* never a finite string shorter than r: it takes the Infinite return when r
\* is not empty and returns "" when r is "".
C8_Idempotent ==
    (pass = 2 /\ pc = "done")
        => /\ ret.kind = "Ok"
           /\ stop # "infinite" => Len(ret.text) >= Len(first_result)
           /\ first_result # <<>> => stop = "infinite"
           /\ first_result = <<>> => ret.text = <<>>

\* the second call returned for a first result that holds a bracket pair
C8_Witness ==
    /\ pass = 2
    /\ pc = "done"
    /\ stop = "infinite"
    /\ Len(first_result) >= 3
    /\ \E k \in 1..Len(first_result) : first_result[k] \in Closers

\* C9: max_len is never greater than twice the length of the input (its
\* number of chars, which is at most its number of bytes).
C9_MaxLenBound == max_len <= 2 * Len(val)

\* a best span found in the second lap that is as long as a finite one can be
C9_Witness ==
    /\ pc = "scan"
    /\ index > Len(val)
    /\ max_end = index
    /\ max_len = Len(val) - 1
    /\ max_len >= 2

\* C10: on a non-empty input of single-byte chars the loop never reaches the
\* end of take(2 * val.len()): it ends by the opener stop, by the mismatch
\* stop at an index >= n, or by the Infinite return, at an index <= 2n - 1.
C10_ScanEnds ==
    (AllSingleByte(val) /\ Len(val) > 0)
        => /\ stop # "exhausted"
           /\ index <= 2 * Len(val) - 1
           /\ pc \in {"slice", "done"}
                => stop \in {"opener_break", "mismatch_break", "infinite"}
           /\ stop = "mismatch_break" => index >= Len(val)

\* the mismatch stop at the last index of the second lap
C10_Witness ==
    /\ Len(val) >= 2
    /\ stop = "mismatch_break"
    /\ index = 2 * Len(val) - 1
    /\ max_len > 0

(***************************************************************************)
(* The scanner without its two breaks.                                     *)
(***************************************************************************)
RECURSIVE NoBreakScan(_, _, _, _, _, _)
\* the loop of lines 58-127 on a string v of single-byte chars, from index i
\* on, with neither break taken: an opener is always pushed (line 72 never
\* runs), a mismatch resets and goes on (line 100 never runs), and the loop
\* ends with the iterator or with the Infinite return
NoBreakScan(v, i, brs, ml, me, pvl) ==
    IF i >= ScanLimit(v)
    THEN [infinite |-> FALSE, max_len |-> ml, max_end |-> me]
    ELSE LET ch == CharAt(v, i)
             WithLen(l, rest) ==
                 LET u == BestUpdate(l, i, ByteLen(v), ml, me)
                 IN  IF u.infinite
                     THEN [infinite |-> TRUE, max_len |-> ml, max_end |-> me]
                     ELSE NoBreakScan(v, i + 1, rest, u.max_len, u.max_end,
                                      IF rest = <<>> THEN l ELSE pvl)
         IN  IF is_bracket(ch)
             THEN IF opening_bracket_to_closing(ch) # <<>>
                  THEN NoBreakScan(v, i + 1,
                           Append(brs, [val |-> opening_bracket_to_closing(ch)[1],
                                        index |-> i]),
                           ml, me, pvl)
                  ELSE IF brs # <<>> /\ CloserMatches(Last(brs), ch)
                       THEN WithLen(CloseLen(Last(brs), Front(brs), i, pvl),
                                    Front(brs))
                       ELSE NoBreakScan(v, i + 1, <<>>, ml, me, 0)
             ELSE WithLen(FillerLen(brs, i, pvl), brs)

\* C11: on an input of single-byte chars the scanner without the breaks,
\* run over all 2n items, ends as the real scanner does: Infinite return or
\* not, and the same max_len and max_end.
C11_BreaksLoseNothing ==
    (pc = "done" /\ AllSingleByte(val))
        => LET r == NoBreakScan(val, 0, <<>>, 0, 0, 0)
           IN  /\ r.infinite <=> stop = "infinite"
               /\ r.max_len = max_len
               /\ r.max_end = max_end

\* a break taken with a best span found and at least two items left to scan
C11_Witness ==
    /\ pc = "done"
    /\ stop \in {"opener_break", "mismatch_break"}
    /\ index <= 2 * Len(val) - 3
    /\ max_len >= 2

\* the chars at the unwrapped indices a..b of the cyclic reading of v
Unwrapped(v, a, b) == IF b < a THEN <<>> ELSE CyclicRun(v, a, b - a + 1)

\* length of the longest balanced run of the unwrapped sequence of v that
\* ends at the index i (included) and starts at an index >= 0
LongestEndingAt(v, i) ==
    SetMax({0} \cup {L \in 1..(i + 1) : Balanced(Unwrapped(v, i - L + 1, i))})

\* the index of the latest iteration that computed a candidate length
LenIndex == IF stop = "infinite" THEN index ELSE index - 1

\* C12: a candidate length computed at the index i (filler char, or closing
\* bracket that matches the popped entry) is the length of the longest
\* balanced run of the unwrapped sequence that ends at i and starts at an
\* index >= 0; when the stack is empty after the step, prev_valid_len is
\* that length.
C12_CandidateLength ==
    (AllSingleByte(val) /\ len # <<>>)
        => /\ len[1] = LongestEndingAt(val, LenIndex)
           /\ (pc = "scan" /\ brackets = <<>>)
                => prev_valid_len = LongestEndingAt(val, LenIndex)

\* in the second lap a matched closer empties the stack and its span is
\* added to the balanced run before it
C12_Witness ==
    /\ pc = "scan"
    /\ len # <<>>
    /\ index - 1 >= Len(val)
    /\ CharAt(val, index - 1) \in Closers
    /\ brackets = <<>>
    /\ len[1] >= 3
    /\ prev_valid_len = len[1]

\* C13: a finite result of length L > 0 is the first balanced run of length
\* L in scan order: max_end is the smallest end index e, L <= e <= 2n, such
\* that the unwrapped indices e-L..e-1 hold a balanced run.
C13_FirstOfTheLongest ==
    (ReturnedFinite /\ AllSingleByte(val) /\ max_len > 0)
        => /\ max_end \in max_len..(2 * Len(val))
           /\ Balanced(Unwrapped(val, max_end - max_len, max_end - 1))
           /\ \A e \in max_len..(max_end - 1) :
                  ~Balanced(Unwrapped(val, e - max_len, e - 1))

\* a result with a second balanced run of the same length later in the
\* first lap
C13_Witness ==
    /\ ReturnedFinite
    /\ AllSingleByte(val)
    /\ max_len > 0
    /\ \E e \in (max_end + 1)..Len(val) :
           Balanced(Unwrapped(val, e - max_len, e - 1))

\* the openers before the index i that nothing has closed or invalidated:
\* all that follows them up to i - 1 is balanced
OpenAt(v, i) ==
    {j \in 0..(i - 1) : /\ CharAt(v, j) \in Openers
                        /\ Balanced(Unwrapped(v, j + 1, i - 1))}

\* C14: the origin indices of the stack increase strictly from bottom to
\* top; each entry (c, j) has j <= index and input[j mod n] is the opening
\* bracket whose closer is c; during the scan the top entry is the latest
\* opener that is neither closed nor abandoned, and the stack is empty when
\* there is none.
C14_StackInvariant ==
    /\ \A k \in 1..(Len(brackets) - 1) :
           brackets[k].index < brackets[k + 1].index
    /\ \A k \in 1..Len(brackets) :
           /\ 0 <= brackets[k].index
           /\ brackets[k].index <= index
           /\ <<CharAt(val, brackets[k].index), brackets[k].val>> \in Pairs
    /\ pc = "scan"
         => IF brackets = <<>>
            THEN OpenAt(val, index) = {}
            ELSE /\ OpenAt(val, index) # {}
                 /\ Last(brackets).index = SetMax(OpenAt(val, index))

\* a stack of three entries that spans the wrap point, built after the
\* stack was emptied once
C14_Witness ==
    /\ pc = "scan"
    /\ Len(brackets) >= 3
    /\ brackets[1].index > 0
    /\ brackets[1].index < Len(val)
    /\ Last(brackets).index >= Len(val)
    /\ brackets[1].val # Last(brackets).val

\* the next iteration reads an opening bracket
AtOpener ==
    /\ pc = "scan"
    /\ index < ScanLimit(val)
    /\ CharAt(val, index) \in Openers

\* the iteration pushed the entry of the opener it read and went on
PushedOpener ==
    /\ pc' = "scan"
    /\ index' = index + 1
    /\ Len(brackets') = Len(brackets) + 1
    /\ SubSeq(brackets', 1, Len(brackets)) = brackets
    /\ Last(brackets').index = index
    /\ <<CharAt(val, index), Last(brackets').val>> \in Pairs

\* the iteration stopped the scan at the opener it read
StoppedAtOpener ==
    /\ pc' = "slice"
    /\ stop' = "opener_break"
    /\ index' = index

\* i >= n and the bottom pending open has the origin index i - n
BottomIsOneLapBack ==
    /\ index >= ByteLen(val)
    /\ brackets # <<>>
    /\ brackets[1].index = index - ByteLen(val)

\* C15, as claimed: on an opening bracket the scan stops exactly when the
\* stack size is n, or i >= n and the bottom origin index is i - n; in every
\* other case it pushes (matching closer, i) and continues.
C15_OpenerStopAsClaimed ==
    [][AtOpener
         => IF Len(brackets) = ByteLen(val) \/ BottomIsOneLapBack
            THEN StoppedAtOpener
            ELSE PushedOpener]_vars

\* C15, amended: on an opening bracket the scan stops exactly when the stack
\* size plus one (the pending opens and this opener) is n = val.len(), or
\* i >= n and the bottom origin index is i - n; in every other case it
\* pushes (matching closer, i) and continues.
C15_OpenerStop ==
    [][AtOpener
         => IF Len(brackets) + 1 = ByteLen(val) \/ BottomIsOneLapBack
            THEN StoppedAtOpener
            ELSE PushedOpener]_vars

\* the scan stopped at an opener of the second lap whose bottom pending open
\* is one lap back, with fewer than n - 1 pending opens
C15_Witness ==
    /\ pc = "slice"
    /\ stop = "opener_break"
    /\ BottomIsOneLapBack
    /\ Len(brackets) >= 2
    /\ Len(brackets) + 1 < ByteLen(val)

\* C16: in every state the stack holds at most n entries, n the number of
\* chars of the input.
C16_StackBound == Len(brackets) <= Len(val)

\* in the second lap, the largest stack the opener stop condition lets grow
C16_Witness ==
    /\ pc = "scan"
    /\ AllSingleByte(val)
    /\ Len(val) >= 3
    /\ index > Len(val)
    /\ Len(brackets) = Len(val) - 1

\* the next iteration reads a closing bracket that finds the stack empty or
\* pops an entry that expects another closer
AtFailingCloser ==
    /\ pc = "scan"
    /\ index < ScanLimit(val)
    /\ CharAt(val, index) \in Closers
    /\ \/ brackets = <<>>
       \/ /\ brackets # <<>>
          /\ Last(brackets).val # CharAt(val, index)

\* C17: a step that pushes an opening bracket leaves max_len, max_end and
\* prev_valid_len unchanged and adds exactly one stack entry; a step whose
\* closing bracket finds the stack empty or pops an entry expecting another
\* closer leaves max_len and max_end unchanged, empties the stack, sets
\* prev_valid_len to 0 and stops the scan only if the index is >= n; no step
\* of a call decreases max_len.
C17_NoCandidateFrame ==
    [][/\ (AtOpener /\ pc' = "scan")
            => /\ max_len' = max_len
               /\ max_end' = max_end
               /\ prev_valid_len' = prev_valid_len
               /\ Len(brackets') = Len(brackets) + 1
       /\ AtFailingCloser
            => /\ max_len' = max_len
               /\ max_end' = max_end
               /\ brackets' = <<>>
               /\ prev_valid_len' = 0
               /\ pc' # "scan" => index >= ByteLen(val)
       /\ pass' = pass => max_len' >= max_len]_vars

\* a closer has just failed in the first lap and reset a balanced run that
\* was found before it
C17_Witness ==
    /\ pc = "scan"
    /\ index > 0
    /\ index < Len(val)
    /\ CharAt(val, index - 1) \in Closers
    /\ len = <<>>
    /\ brackets = <<>>
    /\ prev_valid_len = 0
    /\ max_len >= 2

====
